---- MODULE Spec2Model ----
(***************************************************************************)
(* Model of src/lib/api/logs/EtherscanEventGetter.ts: the Etherscan log    *)
(* fetcher (getEvents with its retry and pagination protocol), the query   *)
(* builder, the event normaliser and the transport retry wrapper, together *)
(* with the per-chain RequestQueue the fetcher submits its HTTP calls to.  *)
(*                                                                         *)
(* JavaScript values are tagged records [t |-> type, v |-> payload]; text  *)
(* is a sequence of one-character strings so that String.includes,         *)
(* String.length, toLowerCase and Number.parseInt are computed, not        *)
(* assumed.                                                                *)
(***************************************************************************)
EXTENDS Integers, Sequences, FiniteSets, TLC

(***************************************************************************)
(* JavaScript values                                                       *)
(***************************************************************************)
Undefined == [t |-> "undefined", v |-> <<>>]
Null == [t |-> "null", v |-> <<>>]
Str(chars) == [t |-> "string", v |-> chars]
Num(n) == [t |-> "number", v |-> n]
NaN == [t |-> "NaN", v |-> 0]
Arr(items) == [t |-> "array", v |-> items]
Obj == [t |-> "object", v |-> <<>>]
\* an object that has a length property, of value n
ObjWithLength(n) == [t |-> "object", v |-> <<n>>]

\* x ?? d
Nullish(x) == x.t \in {"undefined", "null"}
Coalesce(x, d) == IF Nullish(x) THEN d ELSE x

\* ToBoolean(x), as used by && and by !!
Truthy(x) ==
  CASE x.t = "string" -> Len(x.v) > 0
    [] x.t = "number" -> x.v # 0
    [] x.t \in {"undefined", "null", "NaN"} -> FALSE
    [] OTHER -> TRUE

\* a === b
StrictEquals(a, b) == a.t = b.t /\ a.v = b.v

\* x?.length
OptLength(x) ==
  IF x.t \in {"string", "array"} THEN Num(Len(x.v))
  ELSE IF x.t = "object" /\ x.v # <<>> THEN Num(x.v[1])
  ELSE Undefined

\* String.prototype.includes
Includes(s, sub) ==
  \E i \in 0..(Len(s) - Len(sub)) : \A j \in 1..Len(sub) : s[i + j] = sub[j]

\* String.prototype.toLowerCase on the characters that occur in hex text
LowerChar(c) ==
  CASE c = "A" -> "a" [] c = "B" -> "b" [] c = "C" -> "c"
    [] c = "D" -> "d" [] c = "E" -> "e" [] c = "F" -> "f"
    [] c = "X" -> "x" [] OTHER -> c
ToLowerCase(s) == [i \in 1..Len(s) |-> LowerChar(s[i])]

(***************************************************************************)
(* Text constants of the source                                            *)
(***************************************************************************)
RateLimitMarker ==
  <<"M", "a", "x", " ", "r", "a", "t", "e", " ", "l", "i", "m", "i", "t", " ",
    "r", "e", "a", "c", "h", "e", "d">>
TimeoutMarker ==
  <<"Q", "u", "e", "r", "y", " ", "T", "i", "m", "e", "o", "u", "t", " ",
    "o", "c", "c", "u", "r", "e", "d">>
SizeExceededMsg ==
  <<"L", "o", "g", " ", "r", "e", "s", "p", "o", "n", "s", "e", " ",
    "s", "i", "z", "e", " ", "e", "x", "c", "e", "e", "d", "e", "d">>
MalformedMsg ==
  <<"C", "o", "u", "l", "d", " ", "n", "o", "t", " ", "r", "e", "t", "r", "i",
    "e", "v", "e", " ", "e", "v", "e", "n", "t", " ", "l", "o", "g", "s", " ",
    "f", "r", "o", "m", " ", "t", "h", "e", " ", "b", "l", "o", "c", "k", "c",
    "h", "a", "i", "n">>
Marker429 == <<"4", "2", "9">>
LatestText == <<"l", "a", "t", "e", "s", "t">>
AndText == <<"a", "n", "d">>

(***************************************************************************)
(* prepareEtherscanGetLogsQuery                                            *)
(***************************************************************************)
\* (filter.topics ?? []).map(topic => typeof topic === 'string' ? lower : topic)
MapTopics(topics) ==
  LET arr == IF Nullish(topics) THEN <<>> ELSE topics.v
  IN [i \in 1..Len(arr) |->
        IF arr[i].t = "string" THEN Str(ToLowerCase(arr[i].v)) ELSE arr[i]]

\* const [topic0, topic1, topic2, topic3] = ...: position k of the array
Destructure(arr, k) == IF k + 1 <= Len(arr) THEN arr[k + 1] ELSE Undefined

\* Faulty variant of Opr: the combinator follows the left topic alone.
OprLeftOnly(ti, tj) == IF Truthy(ti) THEN Str(AndText) ELSE Undefined
\* topicI && topicJ ? 'and' : undefined
Opr(ti, tj) == IF Truthy(ti) /\ Truthy(tj) THEN Str(AndText) ELSE Undefined

Offset == 1000

prepareEtherscanGetLogsQuery(filter, page, apiKey) ==
  LET ts == MapTopics(filter.topics)
      topic0 == Destructure(ts, 0)
      topic1 == Destructure(ts, 1)
      topic2 == Destructure(ts, 2)
      topic3 == Destructure(ts, 3)
  IN [module |-> "logs",
      action |-> "getLogs",
      fromBlock |-> Coalesce(filter.fromBlock, Num(0)),
      toBlock |-> Coalesce(filter.toBlock, Str(LatestText)),
      topic0 |-> topic0,
      topic1 |-> topic1,
      topic2 |-> topic2,
      topic3 |-> topic3,
      topic0_1_opr |-> Opr(topic0, topic1),
      topic0_2_opr |-> Opr(topic0, topic2),
      topic0_3_opr |-> Opr(topic0, topic3),
      topic1_2_opr |-> Opr(topic1, topic2),
      topic1_3_opr |-> Opr(topic1, topic3),
      topic2_3_opr |-> Opr(topic2, topic3),
      offset |-> Offset,
      apiKey |-> apiKey,
      page |-> page]

(***************************************************************************)
(* formatEtherscanEvent                                                    *)
(***************************************************************************)
HexDigits ==
  <<"0", "1", "2", "3", "4", "5", "6", "7", "8", "9",
    "a", "b", "c", "d", "e", "f">>

HexChars ==
  {HexDigits[i] : i \in 1..16} \cup {"A", "B", "C", "D", "E", "F"}
HexValues ==
  [c \in HexChars |-> (CHOOSE i \in 1..16 : HexDigits[i] = LowerChar(c)) - 1]
IsHexDigit(c) == c \in HexChars
HexValue(c) == HexValues[c]

\* Number.parseInt(text, 16): an optional sign, an optional 0x/0X prefix, then
\* the longest run of hexadecimal digits; NaN when that run is empty.
RECURSIVE HexPrefixValue(_, _, _)
HexPrefixValue(s, i, acc) ==
  IF i > Len(s) \/ ~IsHexDigit(s[i]) THEN acc
  ELSE HexPrefixValue(s, i + 1, acc * 16 + HexValue(s[i]))

ParseIntHex(s) ==
  LET neg == Len(s) >= 1 /\ s[1] = "-"
      a == IF Len(s) >= 1 /\ s[1] \in {"-", "+"} THEN 2 ELSE 1
      b == IF Len(s) >= a + 1 /\ s[a] = "0" /\ s[a + 1] \in {"x", "X"}
           THEN a + 2 ELSE a
  IN IF b > Len(s) \/ ~IsHexDigit(s[b]) THEN NaN
     ELSE Num((IF neg THEN -1 ELSE 1) * HexPrefixValue(s, b, 0))

\* viem getAddress on the well-formed addresses the provider returns: the
\* EIP-55 checksum spelling of the address.
getAddress(a) ==
  CASE a \in {"0x5aaeb6053f3e94c9b9a09f33669435e7ef1beaed",
              "0x5AAEB6053F3E94C9B9A09F33669435E7EF1BEAED",
              "0x5aAeb6053F3E94C9b9A09f33669435E7Ef1BeAed"}
         -> "0x5aAeb6053F3E94C9b9A09f33669435E7Ef1BeAed"
    [] a \in {"0xfb6916095ca1df60bb79ce92ce3ea74c37c5d359",
              "0xfB6916095ca1df60bB79Ce92cE3Ea74c37c5d359"}
         -> "0xfB6916095ca1df60bB79Ce92cE3Ea74c37c5d359"

\* Faulty variant of FilterTopics: every entry is kept.
FilterTopicsKeepAll(topics) == topics
\* etherscanLog.topics.filter(topic => !!topic)
FilterTopics(topics) == SelectSeq(topics, LAMBDA topic : Truthy(topic))

formatEtherscanEvent(etherscanLog) ==
  [address |-> getAddress(etherscanLog.address),
   topics |-> FilterTopics(etherscanLog.topics),
   data |-> etherscanLog.data,
   transactionHash |-> etherscanLog.transactionHash,
   blockNumber |-> ParseIntHex(etherscanLog.blockNumber),
   transactionIndex |-> ParseIntHex(etherscanLog.transactionIndex),
   logIndex |-> ParseIntHex(etherscanLog.logIndex),
   timestamp |-> ParseIntHex(etherscanLog.timeStamp)]

\* data.result.map(formatEtherscanEvent)
MapFormat(items) == [i \in 1..Len(items) |-> formatEtherscanEvent(items[i])]

(***************************************************************************)
(* Bounds of the model                                                     *)
(***************************************************************************)
\* Requests (first attempts, retries and pagination requests) issued in all.
MaxOps == 3
\* Requests a RequestQueue admits per window, and the window's length in ticks.
IntervalCap == 2
Interval == 2

Chains == {1, 2}
Calls == {1, 2}

(***************************************************************************)
(* The provider: what an HTTP call can come back with                      *)
(***************************************************************************)
RateLimitText ==
  <<"M", "a", "x", " ", "r", "a", "t", "e", " ", "l", "i", "m", "i", "t",
    " ", "r", "e", "a", "c", "h", "e", "d", ",", " ", "p", "l", "e", "a",
    "s", "e", " ", "u", "s", "e", " ", "A", "P", "I", " ", "K", "e", "y",
    " ", "f", "o", "r", " ", "h", "i", "g", "h", "e", "r", " ", "r", "a",
    "t", "e", " ", "l", "i", "m", "i", "t">>
TimeoutText ==
  <<"Q", "u", "e", "r", "y", " ", "T", "i", "m", "e", "o", "u", "t", " ",
    "o", "c", "c", "u", "r", "e", "d", ".", " ", "P", "l", "e", "a", "s",
    "e", " ", "s", "e", "l", "e", "c", "t", " ", "a", " ", "s", "m", "a",
    "l", "l", "e", "r", " ", "r", "e", "s", "u", "l", "t", " ", "d", "a",
    "t", "a", "s", "e", "t">>
InvalidKeyText ==
  <<"I", "n", "v", "a", "l", "i", "d", " ", "A", "P", "I", " ", "K", "e",
    "y">>
Status429Msg ==
  <<"R", "e", "q", "u", "e", "s", "t", " ", "f", "a", "i", "l", "e", "d",
    " ", "w", "i", "t", "h", " ", "s", "t", "a", "t", "u", "s", " ", "c",
    "o", "d", "e", " ", "4", "2", "9">>
Status500Msg ==
  <<"R", "e", "q", "u", "e", "s", "t", " ", "f", "a", "i", "l", "e", "d",
    " ", "w", "i", "t", "h", " ", "s", "t", "a", "t", "u", "s", " ", "c",
    "o", "d", "e", " ", "5", "0", "0">>
Timeout4290Msg ==
  <<"t", "i", "m", "e", "o", "u", "t", " ", "o", "f", " ", "4", "2", "9",
    "0", "m", "s", " ", "e", "x", "c", "e", "e", "d", "e", "d">>
NotAFunctionMsg ==
  <<"d", "a", "t", "a", ".", "r", "e", "s", "u", "l", "t", ".", "m", "a",
    "p", " ", "i", "s", " ", "n", "o", "t", " ", "a", " ", "f", "u", "n",
    "c", "t", "i", "o", "n">>
NoIncludesMsg ==
  <<"C", "a", "n", "n", "o", "t", " ", "r", "e", "a", "d", " ", "p", "r",
    "o", "p", "e", "r", "t", "i", "e", "s", " ", "o", "f", " ", "u", "n",
    "d", "e", "f", "i", "n", "e", "d", " ", "(", "r", "e", "a", "d", "i",
    "n", "g", " ", "'", "i", "n", "c", "l", "u", "d", "e", "s", "'", ")">>

\* s padded with dots to n characters
PadTo(s, n) == s \o [i \in 1..(n - Len(s)) |-> "."]

RECURSIVE ToHexDigits(_)
ToHexDigits(n) ==
  IF n < 16 THEN <<HexDigits[n + 1]>>
  ELSE Append(ToHexDigits(n \div 16), HexDigits[(n % 16) + 1])
ToHex(n) == <<"0", "x">> \o ToHexDigits(n)

\* The i-th record of the provider's page p (pages of Offset records each).
ProviderRecord(p, i) ==
  [address |-> IF i % 2 = 1 THEN "0x5aaeb6053f3e94c9b9a09f33669435e7ef1beaed"
               ELSE "0xfB6916095ca1df60bB79Ce92cE3Ea74c37c5d359",
   topics |-> IF i % 3 = 0 THEN <<Str(<<"0", "x", "a">>), Str(<<>>),
                                  Str(<<"0", "x", "d">>)>>
              ELSE <<Str(<<"0", "x", "a">>)>>,
   data |-> "0x",
   transactionHash |-> "0x88df016429689c079f3b2f6ad39fa052532c56795b733da7",
   blockNumber |-> <<"0", "x", "5">>,
   transactionIndex |-> ToHex(i % 7),
   logIndex |-> ToHex((p - 1) * Offset + i),
   timeStamp |-> <<"0", "x", "6", "5", "F", "0">>]
\* Page p holding n records, for every page the bounded run can ask for.
PageLengths == {0, 2, Offset - 1, Offset}
ProviderPages ==
  [p \in 1..(MaxOps + 1), n \in PageLengths |->
     [i \in 1..n |-> ProviderRecord(p, i)]]
ProviderPage(p, n) == ProviderPages[p, n]

\* A page of two records whose second record carries, in one of its four
\* hexadecimal fields, text that holds no hexadecimal digit.
HexFields == {"blockNumber", "transactionIndex", "logIndex", "timeStamp"}
NotHexText == <<"0", "x", "z", "z">>
GarbledPages ==
  [p \in 1..(MaxOps + 1), field \in HexFields |->
     <<ProviderRecord(p, 1), [ProviderRecord(p, 2) EXCEPT ![field] = NotHexText]>>]

\* What comes back is described by [kind, len, text]: an array of len records,
\* a string, another kind of value, or a failure of the HTTP call itself; text
\* names the string, the failure's message or the garbled field.
Texts ==
  [key \in {"rate limit", "timeout", "invalid key", "invalid key, padded",
            "rate limit, padded", "timeout, padded", "status 429",
            "status 500", "timeout of 4290ms"} |->
     CASE key = "rate limit" -> RateLimitMarker
       [] key = "timeout" -> TimeoutText
       [] key = "invalid key" -> InvalidKeyText
       [] key = "invalid key, padded" -> PadTo(InvalidKeyText, Offset)
       [] key = "rate limit, padded" -> PadTo(RateLimitText, Offset)
       [] key = "timeout, padded" -> PadTo(TimeoutText, Offset)
       [] key = "status 429" -> Status429Msg
       [] key = "status 500" -> Status500Msg
       [] key = "timeout of 4290ms" -> Timeout4290Msg]
Outcome(kind, len, text) == [kind |-> kind, len |-> len, text |-> text]
TextOf(d) == Texts[d.text]
ArrayOutcomes == {Outcome("array", n, "") : n \in PageLengths}
StringOutcomes ==
  {Outcome("string", 0, key) :
     key \in {"rate limit", "timeout", "invalid key", "invalid key, padded",
              "rate limit, padded", "timeout, padded"}}
GarbledOutcomes == {Outcome("garbled array", 2, field) : field \in HexFields}
OtherOutcomes ==
  {Outcome(k, 0, "") : k \in {"null", "undefined", "number", "object"}}
    \cup {Outcome("object with length", Offset, "")}
FailureOutcomes ==
  {Outcome("failure", 0, key) :
     key \in {"status 429", "status 500", "timeout of 4290ms"}}
    \cup {Outcome("failure without message", 0, "")}
BodyOutcomes ==
  ArrayOutcomes \cup GarbledOutcomes \cup StringOutcomes \cup OtherOutcomes
AllOutcomes == BodyOutcomes \cup FailureOutcomes
IsFailure(d) == d.kind \in {"failure", "failure without message"}

\* data.result of the response body to a request for page p
ResultOf(d, p) ==
  CASE d.kind = "array" -> Arr(ProviderPage(p, d.len))
    [] d.kind = "string" -> Str(TextOf(d))
    [] d.kind = "null" -> Null
    [] d.kind = "number" -> Num(Offset)
    [] d.kind = "object" -> Obj
    [] d.kind = "object with length" -> ObjWithLength(d.len)
    [] d.kind = "garbled array" -> Arr(GarbledPages[p, d.text])
    [] OTHER -> Undefined
\* the failure e the HTTP call rejects with
FailureOf(d) ==
  [name |-> "AxiosError",
   message |-> IF d.kind = "failure" THEN Str(TextOf(d)) ELSE Undefined]

(***************************************************************************)
(* Callers' inputs                                                         *)
(***************************************************************************)
\* Two scenarios bound the exploration: one caller against every provider
\* outcome and every block-range shape, or two concurrent callers on either
\* chain against the outcomes that decide retry, pagination and completion.
Scenarios == {"single", "concurrent"}

BlockRange(from, to) == [fromBlock |-> from, toBlock |-> to]
BlockRanges ==
  {BlockRange(Num(5), Num(5)), BlockRange(Num(5), Num(9)),
   BlockRange(Undefined, Undefined)}
CallTopics ==
  Arr(<<Str(<<"0", "x", "A", "B">>), Null, Str(<<"0", "x", "c", "d">>)>>)
Filter(range, topics) ==
  [fromBlock |-> range.fromBlock, toBlock |-> range.toBlock, topics |-> topics]

CallersOf(s) == IF s = "single" THEN {1} ELSE Calls
\* The chains the c-th call may be for: the first call is for chain 1, which
\* loses nothing, the chains being alike.
ChainsOf(s, c) == IF s = "single" THEN {1} ELSE {ch \in Chains : ch <= c}
FiltersOf(s) ==
  IF s = "single" THEN {Filter(r, CallTopics) : r \in BlockRanges}
  ELSE {Filter(BlockRange(Num(5), Num(5)), CallTopics)}
ConcurrentOutcomes ==
  {Outcome("array", 2, ""), Outcome("string", 0, "rate limit"),
   Outcome("failure", 0, "status 429")}
OutcomesOf(s) == IF s = "single" THEN AllOutcomes ELSE ConcurrentOutcomes

\* getChainApiKey(chainId): chain 2 is configured without a key
getChainApiKey(chainId) ==
  IF chainId = 1 THEN Str(<<"K", "1">>) ELSE Undefined

(***************************************************************************)
(* State                                                                   *)
(***************************************************************************)
VARIABLES
  scenario,  \* which of Scenarios this behaviour explores
  calls,     \* per top-level getEvents call: its frames and its outcome
  hist,      \* per call: the requests it issued and the responses it got
  ops,       \* every operation handed to a RequestQueue, in submission order
  queues,    \* this.queues: per chain, the RequestQueue's state
  admitted,  \* the operations whose HTTP call has begun, in the order they began
  recent,    \* per chain: ticks since each HTTP call of the current window began
  built,     \* the filter, page and query of the last query-builder run
  formatted  \* the provider record and the Log of the last normaliser run

vars ==
  <<scenario, calls, hist, ops, queues, admitted, recent, built, formatted>>

NoError == [name |-> "none", message |-> Undefined]
MkError(name, text) == [name |-> name, message |-> Str(text)]
NoOutcome == Outcome("none", 0, "")

IdleCall ==
  [pc |-> "idle", chainId |-> 0, filter |-> Filter(BlockRange(Undefined, Undefined), Undefined),
   page |-> 0, frames |-> <<>>, result |-> <<>>, error |-> NoError]

(***************************************************************************)
(* RequestQueue (lib/api/logs/RequestQueue): a sliding-window limiter      *)
(* that runs the operations added to it first in, first out.               *)
(***************************************************************************)
RequestQueueNew == [pending |-> <<>>, window |-> <<>>]
RequestQueueAdd(q, id) == [q EXCEPT !.pending = Append(@, id)]
RequestQueueCanRun(q) == q.pending # <<>> /\ Len(q.window) < IntervalCap
RequestQueueRun(q) == [pending |-> Tail(q.pending), window |-> Append(q.window, 0)]
\* Ages one tick older, those that left the window dropped.
Aged(ages) ==
  SelectSeq([i \in 1..Len(ages) |-> ages[i] + 1], LAMBDA age : age < Interval)
RequestQueueTick(q) == [q EXCEPT !.window = Aged(@)]

(***************************************************************************)
(* getEvents and retryOn429                                                *)
(***************************************************************************)
FullPageLength == 1000
DefaultPage == 1

\* data.result?.length === 1000
IsFullPage(result) == StrictEquals(OptLength(result), Num(FullPageLength))
\* Faulty variants of CannotSplit: every range, or no range, is taken for a
\* single block.
CannotSplitAlways(filter) == TRUE
CannotSplitNever(filter) == FALSE
\* filter.fromBlock === filter.toBlock
CannotSplit(filter) == StrictEquals(filter.fromBlock, filter.toBlock)
\* page + 1
NextPage(page) == page + 1
\* Faulty variant of Spread: the later pages come first.
SpreadReversed(current, rest) == rest \o current
\* [...current, ...rest]
Spread(current, rest) == current \o rest
\* e.message.includes('429'), e.message being text
Is429(message) == Includes(message, Marker429)

\* What a frame of getEvents does once its awaited HTTP call has settled.
\*   k = "refetch": retryOn429 calls fn again (same query, same queue)
\*   k = "paginate": the frame keeps logs and awaits
\*                   this.getEvents(chainId, filter, page)
\*   k = "retry"  : the frame returns this.getEvents(chainId, filter, page)
\*   k = "return" : the frame returns logs
\*   k = "throw"  : the frame throws error
Step(k, page, logs, error) ==
  [k |-> k, page |-> page, logs |-> logs, error |-> error]

\* Faulty variant of OnRejected: every failure is thrown, none retried.
OnRejectedNoRetry(e) == Step("throw", 0, <<>>, e)
\* retryOn429's catch block
OnRejected(e) ==
  IF e.message.t # "string"
  THEN Step("throw", 0, <<>>, MkError("TypeError", NoIncludesMsg))
  ELSE IF Is429(e.message.v) THEN Step("refetch", 0, <<>>, NoError)
  ELSE Step("throw", 0, <<>>, e)

\* getEvents after `const { data } = await ...`
OnResolved(filter, page, result) ==
  IF IsFullPage(result) THEN
    IF CannotSplit(filter) THEN
      IF result.t = "array"
      THEN Step("paginate", NextPage(page), MapFormat(result.v), NoError)
      ELSE Step("throw", 0, <<>>, MkError("TypeError", NotAFunctionMsg))
    ELSE Step("throw", 0, <<>>, MkError("Error", SizeExceededMsg))
  ELSE IF result.t = "string" THEN
    IF Includes(result.v, RateLimitMarker)
    THEN Step("retry", DefaultPage, <<>>, NoError)
    ELSE IF Includes(result.v, TimeoutMarker)
    THEN Step("throw", 0, <<>>, MkError("Error", SizeExceededMsg))
    ELSE Step("throw", 0, <<>>, MkError("Error", result.v))
  ELSE IF result.t # "array"
  THEN Step("throw", 0, <<>>, MkError("Error", MalformedMsg))
  ELSE Step("return", 0, MapFormat(result.v), NoError)

\* OnResolved over the inputs of the bounded runs, computed once: the frame
\* holds filter and page, the request asked for page asked, outcome d came back.
AllFilters == FiltersOf("single") \cup FiltersOf("concurrent")
Pages == 1..(MaxOps + 1)
Resolved ==
  [filter \in AllFilters, page \in Pages, asked \in Pages, d \in BodyOutcomes |->
     OnResolved(filter, page, ResultOf(d, asked))]

\* The awaiting outer frames, innermost last, each holding its own page's
\* logs: every one returns [...its logs, ...what the inner frame returned].
RECURSIVE Unwind(_, _)
Unwind(frames, inner) ==
  IF frames = <<>> THEN inner
  ELSE Unwind(SubSeq(frames, 1, Len(frames) - 1),
              Spread(frames[Len(frames)], inner))

\* The shared state an HTTP submission touches.
World ==
  [ops |-> ops, queues |-> queues, admitted |-> admitted, recent |-> recent]
NewOp(c, chainId, query, state) ==
  [call |-> c, url |-> chainId, query |-> query, state |-> state]

\* Faulty variant of Fn: the HTTP call is made at once, not through the queue.
FnUnqueued(w, c, chainId, query) ==
  [w EXCEPT !.ops = Append(@, NewOp(c, chainId, query, "running")),
            !.admitted = Append(@, Len(w.ops) + 1),
            !.recent[chainId] = Append(@, 0)]
\* Faulty variant of Fn: each call has a queue of its own, not its chain's.
FnQueuePerCall(w, c, chainId, query) ==
  [w EXCEPT !.ops = Append(@, NewOp(c, chainId, query, "pending")),
            !.queues[c] = RequestQueueAdd(@, Len(w.ops) + 1)]
\* Faulty variant of Fn: all the chains share the queue of the first chain.
FnSharedQueue(w, c, chainId, query) ==
  [w EXCEPT !.ops = Append(@, NewOp(c, chainId, query, "pending")),
            !.queues[1] = RequestQueueAdd(@, Len(w.ops) + 1)]
\* Faulty variant of Fn: the operation is made but never added to a queue.
FnNotAdded(w, c, chainId, query) ==
  [w EXCEPT !.ops = Append(@, NewOp(c, chainId, query, "pending"))]
\* Faulty variant of Fn: only the first request of a call goes through the
\* queue, its later requests are made at once.
FnQueuedOnce(w, c, chainId, query) ==
  IF \E id \in 1..Len(w.ops) : w.ops[id].call = c
  THEN [w EXCEPT !.ops = Append(@, NewOp(c, chainId, query, "running")),
                 !.admitted = Append(@, Len(w.ops) + 1),
                 !.recent[chainId] = Append(@, 0)]
  ELSE [w EXCEPT !.ops = Append(@, NewOp(c, chainId, query, "pending")),
                 !.queues[chainId] = RequestQueueAdd(@, Len(w.ops) + 1)]
\* fn = () => queue.add(() => axios.get(apiUrl, { params: query })),
\* with queue = this.queues[chainId]
Fn(w, c, chainId, query) ==
  [w EXCEPT !.ops = Append(@, NewOp(c, chainId, query, "pending")),
            !.queues[chainId] = RequestQueueAdd(@, Len(w.ops) + 1)]

Event(ev, op, page, d) == [ev |-> ev, op |-> op, page |-> page, d |-> d]

Init ==
  /\ scenario \in Scenarios
  /\ calls = [c \in Calls |-> IdleCall]
  /\ hist = [c \in Calls |-> <<>>]
  /\ ops = <<>>
  /\ queues = [ch \in Chains |-> RequestQueueNew]
  /\ admitted = <<>>
  /\ recent = [ch \in Chains |-> <<>>]
  /\ built = <<>>
  /\ formatted = <<>>

\* A caller invokes getEvents(chainId, filter): the frame for page 1 builds
\* its query and submits the HTTP call. Calls are numbered in the order they
\* are made.
GetEvents(c, chainId, filter) ==
  /\ calls[c].pc = "idle"
  /\ \A earlier \in 1..(c - 1) : calls[earlier].pc # "idle"
  /\ Len(ops) < MaxOps
  /\ \E w \in {Fn(World, c, chainId,
                   prepareEtherscanGetLogsQuery(filter, DefaultPage, getChainApiKey(chainId)))} :
        /\ ops' = w.ops
        /\ queues' = w.queues
        /\ admitted' = w.admitted
        /\ recent' = w.recent
        /\ hist' = [hist EXCEPT ![c] = Append(@, Event("req", Len(w.ops), DefaultPage, NoOutcome))]
  /\ calls' = [calls EXCEPT ![c] =
       [pc |-> "waiting", chainId |-> chainId, filter |-> filter,
        page |-> DefaultPage, frames |-> <<>>, result |-> <<>>, error |-> NoError]]
  /\ UNCHANGED <<scenario, built, formatted>>

\* The RequestQueue of chain ch starts its oldest pending operation.
Admit(ch) ==
  /\ RequestQueueCanRun(queues[ch])
  /\ LET id == Head(queues[ch].pending)
     IN /\ ops' = [ops EXCEPT ![id].state = "running"]
        /\ admitted' = Append(admitted, id)
        /\ recent' = [recent EXCEPT ![ops[id].url] = Append(@, 0)]
  /\ queues' = [queues EXCEPT ![ch] = RequestQueueRun(@)]
  /\ UNCHANGED <<scenario, calls, hist, built, formatted>>

\* One tick of time passes. Time is followed for as long as a call can still
\* be made or an operation is still pending or running.
Tick ==
  /\ \/ \E c \in CallersOf(scenario) : calls[c].pc = "idle"
     \/ \E id \in 1..Len(ops) : ops[id].state # "done"
  /\ queues' = [ch \in Chains |-> RequestQueueTick(queues[ch])]
  /\ recent' = [ch \in Chains |-> Aged(recent[ch])]
  /\ UNCHANGED <<scenario, calls, hist, ops, admitted, built, formatted>>

\* The HTTP call of operation id settles with outcome d and the awaiting
\* frame of its getEvents call runs to its next await, return or throw.
Respond(id, d) ==
  /\ id \in 1..Len(ops)
  /\ ops[id].state = "running"
  /\ LET c == ops[id].call
         me == calls[c]
         query == ops[id].query
         done == [ops EXCEPT ![id].state = "done"]
         seen == Append(hist[c], Event("resp", id, query.page, d))
         w0 == [World EXCEPT !.ops = done]
     IN \E step \in {IF IsFailure(d) THEN OnRejected(FailureOf(d))
                     ELSE Resolved[me.filter, me.page, query.page, d]} :
        /\ step.k \in {"refetch", "paginate", "retry"} => Len(ops) < MaxOps
        /\ CASE step.k = "refetch" ->
                  \E w \in {Fn(w0, c, me.chainId, query)} :
                     /\ ops' = w.ops /\ queues' = w.queues
                     /\ admitted' = w.admitted /\ recent' = w.recent
                     /\ hist' = [hist EXCEPT ![c] =
                          Append(seen, Event("req", Len(w.ops), query.page, NoOutcome))]
                     /\ calls' = calls
             [] step.k \in {"paginate", "retry"} ->
                  \E w \in {Fn(w0, c, me.chainId,
                             prepareEtherscanGetLogsQuery(me.filter, step.page, getChainApiKey(me.chainId)))} :
                     /\ ops' = w.ops /\ queues' = w.queues
                     /\ admitted' = w.admitted /\ recent' = w.recent
                     /\ hist' = [hist EXCEPT ![c] =
                          Append(seen, Event("req", Len(w.ops), step.page, NoOutcome))]
                     /\ calls' = [calls EXCEPT
                          ![c].page = step.page,
                          ![c].frames = IF step.k = "paginate" THEN Append(@, step.logs) ELSE @]
             [] step.k = "return" ->
                  /\ ops' = done /\ hist' = [hist EXCEPT ![c] = seen]
                  /\ calls' = [calls EXCEPT
                       ![c].pc = "returned", ![c].frames = <<>>,
                       ![c].result = Unwind(me.frames, step.logs)]
                  /\ UNCHANGED <<queues, admitted, recent>>
             [] step.k = "throw" ->
                  /\ ops' = done /\ hist' = [hist EXCEPT ![c] = seen]
                  /\ calls' = [calls EXCEPT
                       ![c].pc = "thrown", ![c].frames = <<>>,
                       ![c].error = step.error]
                  /\ UNCHANGED <<queues, admitted, recent>>
  /\ UNCHANGED <<scenario, built, formatted>>

Next ==
  \/ \E c \in CallersOf(scenario) :
       \E chainId \in ChainsOf(scenario, c), filter \in FiltersOf(scenario) :
         GetEvents(c, chainId, filter)
  \/ \E ch \in Chains : Admit(ch)
  \/ Tick
  \/ \E id \in 1..Len(ops), d \in OutcomesOf(scenario) : Respond(id, d)

Spec == Init /\ [][Next]_vars

(***************************************************************************)
(* The query builder on its own: every shape of topics, page and key       *)
(***************************************************************************)
TopicChoices ==
  {Str(<<"0", "x", "A", "B">>), Null, Arr(<<Str(<<"0", "x", "C">>)>>)}
TopicArrays ==
  UNION {[1..n -> TopicChoices] : n \in 0..4}
QueryFilters ==
  {Filter(BlockRange(Num(5), Num(9)), Arr(ts)) : ts \in TopicArrays}
    \cup {Filter(BlockRange(Undefined, Undefined), Undefined)}

BuildQuery(filter, page, apiKey) ==
  /\ built' = [filter |-> filter, page |-> page, apiKey |-> apiKey,
               query |-> prepareEtherscanGetLogsQuery(filter, page, apiKey)]
  /\ UNCHANGED <<scenario, calls, hist, ops, queues, admitted, recent, formatted>>

InitQuery == Init /\ scenario = "single"
NextQuery ==
  \E filter \in QueryFilters, page \in 1..MaxOps, chainId \in Chains :
    BuildQuery(filter, page, getChainApiKey(chainId))
SpecQuery == InitQuery /\ [][NextQuery]_vars

(***************************************************************************)
(* The event normaliser on its own: records with every arrangement of      *)
(* empty and non-empty topics                                              *)
(***************************************************************************)
TopicEntries ==
  {Str(<<"0", "x", "a", "b", "c">>), Str(<<>>), Str(<<"0", "x", "d", "e", "f">>)}
FormatRecords ==
  {[ProviderRecord(1, i) EXCEPT !.topics = ts] :
     i \in 1..2, ts \in UNION {[1..n -> TopicEntries] : n \in 0..4}}

FormatEvent(etherscanLog) ==
  /\ formatted' = [record |-> etherscanLog, log |-> formatEtherscanEvent(etherscanLog)]
  /\ UNCHANGED <<scenario, calls, hist, ops, queues, admitted, recent, built>>

InitFormat == Init /\ scenario = "single"
NextFormat == \E etherscanLog \in FormatRecords : FormatEvent(etherscanLog)
SpecFormat == InitFormat /\ [][NextFormat]_vars

(***************************************************************************)
(* Fairness: time passes, every RequestQueue keeps running what it can,    *)
(* and every HTTP call settles.                                            *)
(***************************************************************************)
\* The runs are bounded, so fairness of admission and of settling as a whole
\* gives each queue and each HTTP call its turn.
Admission == \E ch \in Chains : Admit(ch)
Settling == \E id \in 1..Len(ops), d \in OutcomesOf(scenario) : Respond(id, d)
Fairness == WF_vars(Tick) /\ WF_vars(Admission) /\ WF_vars(Settling)
\* Checked on the runs of two concurrent callers.
InitConcurrent == Init /\ scenario = "concurrent"
FairSpec == InitConcurrent /\ [][Next]_vars /\ Fairness

(***************************************************************************)
(* One paginated fetch under fairness: one caller, a single-block or a     *)
(* ranged filter, and the outcomes that decide whether the call goes on    *)
(* (rate-limit signals, full pages) or ends (a partial page, an error).    *)
(***************************************************************************)
PagingFilters ==
  {Filter(BlockRange(Num(5), Num(5)), CallTopics),
   Filter(BlockRange(Num(5), Num(9)), CallTopics)}
PagingOutcomes ==
  {Outcome("array", Offset, ""), Outcome("array", 2, ""),
   Outcome("string", 0, "rate limit"), Outcome("string", 0, "timeout"),
   Outcome("failure", 0, "status 429"), Outcome("failure", 0, "status 500")}
InitPaging == Init /\ scenario = "single"
SettlingPaging == \E id \in 1..Len(ops), d \in PagingOutcomes : Respond(id, d)
NextPaging ==
  \/ \E filter \in PagingFilters : GetEvents(1, 1, filter)
  \/ Admission
  \/ Tick
  \/ SettlingPaging
FairPaging ==
  /\ InitPaging /\ [][NextPaging]_vars
  /\ WF_vars(Tick) /\ WF_vars(Admission) /\ WF_vars(SettlingPaging)

(***************************************************************************)
(* Vocabulary of the properties                                            *)
(***************************************************************************)
IsReq(e) == e.ev = "req"
IsResp(e) == e.ev = "resp"
Requests(c) == SelectSeq(hist[c], IsReq)
Responses(c) == SelectSeq(hist[c], IsResp)
Started(c) == calls[c].pc # "idle"

\* The kinds of response, stated on what the provider sent.
RateLimitKeys == {key \in DOMAIN Texts : Includes(Texts[key], RateLimitMarker)}
TimeoutKeys == {key \in DOMAIN Texts : Includes(Texts[key], TimeoutMarker)}
FullPage(e) == IsResp(e) /\ e.d.kind = "array" /\ e.d.len = Offset
PartialPage(e) == IsResp(e) /\ e.d.kind = "array" /\ e.d.len < Offset
RateLimitBody(e) == IsResp(e) /\ e.d.kind = "string" /\ e.d.text \in RateLimitKeys
TimeoutBody(e) == IsResp(e) /\ e.d.kind = "string" /\ e.d.text \in TimeoutKeys
OtherStringBody(e) ==
  IsResp(e) /\ e.d.kind = "string" /\ e.d.text \notin RateLimitKeys \cup TimeoutKeys
Transport429(e) == IsResp(e) /\ e.d.kind = "failure" /\ e.d.text = "status 429"

\* The event at position i of call c is the last thing the call did.
LastEvent(c, i) == i = Len(hist[c])
\* The event at position i of call c was followed by a request for page p.
FollowedByRequest(c, i) == i < Len(hist[c]) /\ IsReq(hist[c][i + 1])
FollowedByRequestFor(c, i, p) == FollowedByRequest(c, i) /\ hist[c][i + 1].page = p

Raised(c, text) ==
  calls[c].pc = "thrown" /\ calls[c].error = MkError("Error", text)
RaisedSizeExceeded(c) == Raised(c, SizeExceededMsg)

\* The filter's fromBlock and toBlock are equal as the filter states them.
FieldsEqual(filter) == filter.fromBlock = filter.toBlock
\* The filter names one block: fromBlock and toBlock are the same number.
OneBlock(filter) ==
  /\ filter.fromBlock.t = "number" /\ filter.toBlock.t = "number"
  /\ filter.fromBlock.v = filter.toBlock.v
BothAbsent(filter) == filter.fromBlock = Undefined /\ filter.toBlock = Undefined

\* The normalized records of the provider's pages 1..Len(resps), page after
\* page, page i holding as many records as the i-th response carried.
FormattedPages ==
  [p \in Pages, n \in PageLengths |-> MapFormat(ProviderPage(p, n))]
RECURSIVE PagesInOrder(_, _)
PagesInOrder(resps, n) ==
  IF n = 0 THEN <<>>
  ELSE PagesInOrder(resps, n - 1) \o FormattedPages[n, resps[n].d.len]

(***************************************************************************)
(* C1: on a filter with fromBlock == toBlock, when the responses are full  *)
(* pages followed by one partial page, getEvents requests pages 1, 2, ...  *)
(* in that order, each once, stops after the partial page and returns the  *)
(* normalized records of all the pages in page order.                      *)
(***************************************************************************)
PagedRun(c) ==
  LET resps == Responses(c)
  IN \A i \in 1..Len(resps) :
       \/ FullPage(resps[i])
       \/ PartialPage(resps[i]) /\ i = Len(resps)

C1_PaginationInOrder ==
  \A c \in Calls :
    (Started(c) /\ FieldsEqual(calls[c].filter) /\ PagedRun(c)) =>
      LET reqs == Requests(c)
          resps == Responses(c)
      IN /\ \A i \in 1..Len(reqs) : reqs[i].page = i
         /\ IF resps # <<>> /\ PartialPage(resps[Len(resps)])
            THEN /\ Len(reqs) = Len(resps)
                 /\ calls[c].pc = "returned"
                 /\ calls[c].result = PagesInOrder(resps, Len(resps))
            ELSE /\ Len(reqs) = Len(resps) + 1
                 /\ calls[c].pc = "waiting"

C1_Witness ==
  \E c \in Calls :
    /\ calls[c].filter.fromBlock = Num(5) /\ calls[c].filter.toBlock = Num(5)
    /\ calls[c].pc = "returned"
    /\ Len(Responses(c)) = 3
    /\ FullPage(Responses(c)[1]) /\ FullPage(Responses(c)[2])
    /\ Responses(c)[3].d = Outcome("array", 2, "")
    /\ Len(calls[c].result) = 2 * Offset + 2

(***************************************************************************)
(* C2: on a filter with fromBlock != toBlock, a full page makes getEvents  *)
(* raise 'Log response size exceeded' and issue no further request.        *)
(***************************************************************************)
C2_FullPageOnRangeRaises ==
  \A c \in Calls :
    (Started(c) /\ ~FieldsEqual(calls[c].filter)) =>
      \A i \in 1..Len(hist[c]) :
        FullPage(hist[c][i]) => LastEvent(c, i) /\ RaisedSizeExceeded(c)

C2_Witness ==
  \E c \in Calls :
    /\ calls[c].filter.fromBlock = Num(5) /\ calls[c].filter.toBlock = Num(9)
    /\ hist[c] # <<>> /\ FullPage(hist[c][Len(hist[c])])
    /\ RaisedSizeExceeded(c)

C4_RateLimitRetriesSamePage ==
  \A c \in Calls : \A i \in 1..Len(hist[c]) :
    (RateLimitBody(hist[c][i]) /\ FollowedByRequest(c, i)) =>
      /\ hist[c][i + 1].page = hist[c][i].page
      /\ ops[hist[c][i + 1].op].url = ops[hist[c][i].op].url
      /\ ops[hist[c][i + 1].op].query = ops[hist[c][i].op].query

(***************************************************************************)
(* C5: a result string that contains neither the rate-limit marker nor the *)
(* timeout marker, whatever its length, makes getEvents raise an error     *)
(* whose message is exactly that string and issue no further request.      *)
(***************************************************************************)
C5_OtherStringRaisedVerbatim ==
  \A c \in Calls : \A i \in 1..Len(hist[c]) :
    OtherStringBody(hist[c][i]) =>
      LastEvent(c, i) /\ Raised(c, TextOf(hist[c][i].d))

(***************************************************************************)
(* C6, as claimed: every QueryTooLarge response (a full page, or a string  *)
(* containing 'Query Timeout occured') on a filter with fromBlock ==       *)
(* toBlock is followed by a request for page+1, and 'Log response size     *)
(* exceeded' is raised only when the range spans more than one block.      *)
(***************************************************************************)
C6_AsClaimed ==
  \A c \in Calls :
    Started(c) =>
      /\ OneBlock(calls[c].filter) =>
           \A i \in 1..Len(hist[c]) :
             (FullPage(hist[c][i]) \/ TimeoutBody(hist[c][i])) =>
               FollowedByRequestFor(c, i, hist[c][i].page + 1)
      /\ RaisedSizeExceeded(c) => ~OneBlock(calls[c].filter)

(***************************************************************************)
(* C6, amended: a full page (an array of exactly 1000 records) on a filter *)
(* with fromBlock === toBlock is followed by a request for page+1 and      *)
(* raises nothing; a full page raises 'Log response size exceeded' only    *)
(* when fromBlock !== toBlock; a string containing 'Query Timeout occured' *)
(* (and not the rate-limit marker) is never followed by a request: the     *)
(* call raises at once, whatever the block range.                          *)
(***************************************************************************)
C6_PaginateOnlyOnFullPage ==
  \A c \in Calls :
    Started(c) =>
      \A i \in 1..Len(hist[c]) :
        /\ (FullPage(hist[c][i]) /\ StrictEquals(calls[c].filter.fromBlock, calls[c].filter.toBlock)) =>
             FollowedByRequestFor(c, i, hist[c][i].page + 1)
        /\ (FullPage(hist[c][i]) /\ LastEvent(c, i)) =>
             /\ ~StrictEquals(calls[c].filter.fromBlock, calls[c].filter.toBlock)
             /\ RaisedSizeExceeded(c)
        /\ (TimeoutBody(hist[c][i]) /\ ~RateLimitBody(hist[c][i])) =>
             LastEvent(c, i) /\ calls[c].pc = "thrown"

C6_Witness ==
  \E c \in Calls :
    /\ OneBlock(calls[c].filter)
    /\ Len(hist[c]) = 4
    /\ FullPage(hist[c][2]) /\ IsReq(hist[c][3]) /\ hist[c][3].page = 2
    /\ hist[c][4].d = Outcome("string", 0, "timeout")
    /\ RaisedSizeExceeded(c)

(***************************************************************************)
(* C7: for every pair of topic positions i < j in 0..3 the built query     *)
(* carries topic{i}_{j}_opr = 'and' exactly when topics i and j are both   *)
(* present, and leaves the parameter out otherwise.                        *)
(***************************************************************************)
Present(filter, k) ==
  /\ filter.topics.t = "array"
  /\ k + 1 <= Len(filter.topics.v)
  /\ filter.topics.v[k + 1].t \notin {"null", "undefined"}

OprOf(query, i, j) ==
  CASE <<i, j>> = <<0, 1>> -> query.topic0_1_opr
    [] <<i, j>> = <<0, 2>> -> query.topic0_2_opr
    [] <<i, j>> = <<0, 3>> -> query.topic0_3_opr
    [] <<i, j>> = <<1, 2>> -> query.topic1_2_opr
    [] <<i, j>> = <<1, 3>> -> query.topic1_3_opr
    [] <<i, j>> = <<2, 3>> -> query.topic2_3_opr

C7_CombinatorPerPresentPair ==
  built # <<>> =>
    \A i \in 0..3 : \A j \in (i + 1)..3 :
      OprOf(built.query, i, j) =
        IF Present(built.filter, i) /\ Present(built.filter, j)
        THEN Str(AndText) ELSE Undefined

C7_Witness ==
  /\ built # <<>>
  /\ Present(built.filter, 0) /\ ~Present(built.filter, 1)
  /\ Present(built.filter, 2) /\ ~Present(built.filter, 3)
  /\ built.query.topic0_2_opr = Str(AndText)
  /\ built.query.topic0_1_opr = Undefined
  /\ built.query.topic1_2_opr = Undefined

(***************************************************************************)
(* C8: on every chain no more than IntervalCap HTTP calls begin within any *)
(* window of Interval ticks, however many operations were submitted, and   *)
(* every submitted operation eventually completes.                         *)
(***************************************************************************)
WindowRespected == \A ch \in Chains : Len(recent[ch]) <= IntervalCap
Submitted(id) == id <= Len(ops)
Completed(id) == id <= Len(ops) /\ ops[id].state = "done"
Admitted(id) == id <= Len(ops) /\ ops[id].state # "pending"

\* A completed operation stays completed, so every operation completes if
\* and only if again and again all the operations submitted so far have.
C8_WindowAndCompletion ==
  /\ []WindowRespected
  /\ []<>(\A id \in 1..MaxOps : Submitted(id) => Completed(id))

C8_Witness ==
  \E ch \in Chains :
    /\ Cardinality({id \in 1..Len(ops) : ops[id].url = ch}) > IntervalCap
    /\ \A id \in 1..Len(ops) : ops[id].state = "done"

(***************************************************************************)
(* C9: within one chain the HTTP calls begin in the order in which their   *)
(* operations were submitted, and every submitted operation is admitted.   *)
(***************************************************************************)
OfChain(ids, ch) == SelectSeq(ids, LAMBDA id : ops[id].url = ch)
IsPrefix(s, r) == Len(s) <= Len(r) /\ s = SubSeq(r, 1, Len(s))
AdmissionInOrder ==
  \A ch \in Chains :
    IsPrefix(OfChain(admitted, ch), OfChain([id \in 1..Len(ops) |-> id], ch))

C9_FifoNoStarvation ==
  /\ []AdmissionInOrder
  /\ []<>(\A id \in 1..MaxOps : Submitted(id) => Admitted(id))

C9_Witness ==
  \E ch \in Chains :
    /\ queues[ch].pending # <<>>
    /\ Len(queues[ch].window) = IntervalCap
    /\ Len(OfChain(admitted, ch)) >= IntervalCap
    /\ \E i, j \in 1..Len(admitted) : ops[admitted[i]].call # ops[admitted[j]].call

(***************************************************************************)
(* C10: on a filter with neither fromBlock nor toBlock (the query asks for *)
(* blocks 0 to 'latest'), a full page makes getEvents raise 'Log response  *)
(* size exceeded' and issue no request for page+1.                         *)
(***************************************************************************)
C10_FullPageOnOpenRangeRaises ==
  \A c \in Calls :
    (Started(c) /\ BothAbsent(calls[c].filter)) =>
      \A i \in 1..Len(hist[c]) :
        FullPage(hist[c][i]) => LastEvent(c, i) /\ RaisedSizeExceeded(c)

(***************************************************************************)
(* C11: on a single-block filter, however in-body rate-limit responses are *)
(* interleaved with the page responses, the sequence getEvents returns     *)
(* holds the normalized records of each provider page exactly once, in     *)
(* page order: no page is fetched or returned a second time.               *)
(***************************************************************************)
PageResponses(c) == SelectSeq(Responses(c), LAMBDA e : e.d.kind = "array")
PagesAndRateLimits(c) ==
  \A i \in 1..Len(Responses(c)) :
    \/ FullPage(Responses(c)[i])
    \/ PartialPage(Responses(c)[i])
    \/ RateLimitBody(Responses(c)[i])

C11_EachPageOnceInOrder ==
  \A c \in Calls :
    (calls[c].pc = "returned" /\ OneBlock(calls[c].filter) /\ PagesAndRateLimits(c)) =>
      LET pages == PageResponses(c)
      IN /\ \A i \in 1..Len(pages) : pages[i].page = i
         /\ calls[c].result = PagesInOrder(pages, Len(pages))

(***************************************************************************)
(* C12: after an HTTP call fails with the transport-level 429 condition,   *)
(* the next request of the call is a new submission with the same URL, the *)
(* same query parameters and the same page, made to the same chain's       *)
(* RequestQueue; so it is after each of several consecutive 429 failures.  *)
(***************************************************************************)
InSeq(x, s) == \E k \in 1..Len(s) : s[k] = x
\* Operation id went to the RequestQueue of chain ch: it waits there or the
\* queue has started it.
ThroughQueue(id, ch) ==
  IF ops[id].state = "pending" THEN InSeq(id, queues[ch].pending)
  ELSE InSeq(id, admitted)

C12_Transport429RetriesIdentical ==
  \A c \in Calls : \A i \in 1..Len(hist[c]) :
    Transport429(hist[c][i]) =>
      /\ FollowedByRequest(c, i)
      /\ LET failed == hist[c][i].op
             again == hist[c][i + 1].op
         IN /\ again # failed
            /\ ops[again].url = ops[failed].url
            /\ ops[again].query = ops[failed].query
            /\ hist[c][i + 1].page = hist[c][i].page
            /\ ThroughQueue(again, ops[failed].url)

C12_Witness ==
  \E c \in Calls :
    /\ Len(hist[c]) >= 5
    /\ FullPage(hist[c][2])
    /\ Transport429(hist[c][4]) /\ hist[c][4].page = 2
    /\ IsReq(hist[c][5]) /\ hist[c][5].page = 2
    /\ ops[hist[c][5].op].state = "running"

(***************************************************************************)
(* C13: a failure of the HTTP call that is not the transport-level 429     *)
(* condition (one without message text, or one whose text holds the digits *)
(* 429 for another reason, included) is raised to the caller of getEvents  *)
(* as that same failure, and the call issues no further request.           *)
(***************************************************************************)
OtherFailure(e) == IsResp(e) /\ IsFailure(e.d) /\ ~Transport429(e)

C13_OtherFailureRaisedAsIs ==
  \A c \in Calls : \A i \in 1..Len(hist[c]) :
    OtherFailure(hist[c][i]) =>
      /\ LastEvent(c, i)
      /\ calls[c].pc = "thrown"
      /\ calls[c].error = FailureOf(hist[c][i].d)

(***************************************************************************)
(* C14: when one of the four hexadecimal fields of a provider record holds *)
(* text that cannot be parsed as hexadecimal, getEvents raises an error    *)
(* and returns no Log of that page to the caller.                          *)
(***************************************************************************)
GarbledPage(e) == IsResp(e) /\ e.d.kind = "garbled array"

C14_UnparsableFieldRaises ==
  \A c \in Calls : \A i \in 1..Len(hist[c]) :
    GarbledPage(hist[c][i]) =>
      /\ LastEvent(c, i)
      /\ calls[c].pc = "thrown"
      /\ calls[c].result = <<>>

(***************************************************************************)
(* C15: every HTTP request made for getEvents(chainId, ...), be it the     *)
(* first attempt, a retry after a transport 429, a retry after an in-body  *)
(* rate limit or a pagination request, is a new operation submitted to the *)
(* RequestQueue of chainId, and its HTTP call begins only when that queue  *)
(* starts it: no request goes round the queue or shares an admission.      *)
(***************************************************************************)
Occurrences(x, s) == Cardinality({k \in 1..Len(s) : s[k] = x})
\* The requests of all calls that were made with operation id.
RequestsWith(id) ==
  {<<c, i>> \in Calls \X (1..(2 * MaxOps)) :
     i <= Len(hist[c]) /\ IsReq(hist[c][i]) /\ hist[c][i].op = id}

C15_EveryRequestThroughQueue ==
  /\ \A id \in 1..Len(ops) :
       /\ Cardinality(RequestsWith(id)) = 1
       /\ ops[id].url = calls[ops[id].call].chainId
       /\ Occurrences(id, queues[ops[id].url].pending)
            = IF ops[id].state = "pending" THEN 1 ELSE 0
       /\ Occurrences(id, admitted) = IF ops[id].state = "pending" THEN 0 ELSE 1
       /\ \A ch \in Chains \ {ops[id].url} : ~InSeq(id, queues[ch].pending)
  /\ \A c \in Calls : \A i \in 1..Len(hist[c]) :
       /\ hist[c][i].op \in 1..Len(ops) /\ ops[hist[c][i].op].call = c
       /\ IsResp(hist[c][i]) => InSeq(hist[c][i].op, admitted)
  \* the HTTP calls begun within the window are those the queue started
  /\ \A ch \in Chains : recent[ch] = queues[ch].window

C15_Witness ==
  \E c \in Calls :
    /\ Len(hist[c]) >= 5
    /\ FullPage(hist[c][2]) /\ IsReq(hist[c][3]) /\ hist[c][3].page = 2
    /\ RateLimitBody(hist[c][4]) /\ IsReq(hist[c][5])
    /\ ops[hist[c][5].op].state # "pending"
    /\ Cardinality({hist[c][1].op, hist[c][3].op, hist[c][5].op}) = 3

(***************************************************************************)
(* C16: when the provider sends only finitely many rate-limit signals and  *)
(* full pages and the RequestQueue admits every operation, a getEvents     *)
(* call eventually completes, returning Logs or raising an error; it has   *)
(* issued exactly one request per response received.                       *)
(***************************************************************************)
Finished(c) == calls[c].pc \in {"returned", "thrown"}
OneRequestPerResponse ==
  \A c \in Calls :
    /\ Len(Requests(c)) =
         Len(Responses(c)) + (IF calls[c].pc = "waiting" THEN 1 ELSE 0)
    /\ Cardinality({id \in 1..Len(ops) : ops[id].call = c}) = Len(Requests(c))

\* A finished call stays finished, so the call completes if and only if
\* again and again every call made so far has finished.
C16_CallCompletes ==
  /\ []OneRequestPerResponse
  /\ []<>(\A c \in Calls : Started(c) => Finished(c))

C16_Witness ==
  \E c \in Calls :
    /\ calls[c].pc = "returned"
    /\ Len(Requests(c)) = 3 /\ Len(Responses(c)) = 3
    /\ Transport429(Responses(c)[1])
    /\ FullPage(Responses(c)[2])
    /\ Len(calls[c].result) = Offset + 2

(***************************************************************************)
(* C17: a response whose result is neither a string nor a sequence         *)
(* (absent, null, a number or an object) makes getEvents raise 'Could not  *)
(* retrieve event logs from the blockchain' and issue no further request,  *)
(* whatever the block range of the filter.                                 *)
(***************************************************************************)
NeitherStringNorSequence(e) ==
  /\ IsResp(e)
  /\ e.d.kind \in {"undefined", "null", "number", "object", "object with length"}

C17_MalformedRaises ==
  \A c \in Calls : \A i \in 1..Len(hist[c]) :
    NeitherStringNorSequence(hist[c][i]) =>
      LastEvent(c, i) /\ Raised(c, MalformedMsg)

(***************************************************************************)
(* C18: there is exactly one RequestQueue per supported chain, from        *)
(* construction on; a getEvents call for a chain submits its operations to *)
(* the queue of that chain only, so no step of a call on one chain changes *)
(* the queue or the admission state of another chain.                      *)
(***************************************************************************)
QueuePerChain ==
  /\ DOMAIN queues = Chains
  /\ \A ch \in Chains : \A k \in 1..Len(queues[ch].pending) :
       LET id == queues[ch].pending[k]
       IN ops[id].url = ch /\ calls[ops[id].call].chainId = ch
  /\ \A k \in 1..Len(admitted) :
       ops[admitted[k]].url = calls[ops[admitted[k]].call].chainId
\* A step of call c: it issued a request or took a response.
StepOfCall(c) == hist'[c] # hist[c]
OtherChainsUntouched ==
  \A c \in Calls :
    StepOfCall(c) =>
      \A ch \in Chains \ {calls'[c].chainId} :
        queues'[ch] = queues[ch] /\ recent'[ch] = recent[ch]

C18_OneQueuePerChain ==
  /\ []QueuePerChain
  /\ [][DOMAIN queues' = DOMAIN queues /\ OtherChainsUntouched]_vars

C18_Witness ==
  /\ calls[1].chainId = 1 /\ calls[2].chainId = 2
  /\ Len(Requests(1)) = 2
  /\ queues[1].pending # <<>>
  /\ queues[2].pending # <<>>
  /\ \A k \in 1..Len(queues[2].pending) : ops[queues[2].pending[k]].call = 2

(***************************************************************************)
(* C19: the normalized topics of a provider record are exactly the         *)
(* non-empty entries of the record's topics in their original order;       *)
(* topics free of empty entries come out unchanged, and so do topics that  *)
(* were normalized already.                                                *)
(***************************************************************************)
NonEmpty(topic) == topic.t = "string" /\ topic.v # <<>>
RECURSIVE NonEmptyEntries(_)
NonEmptyEntries(topics) ==
  IF topics = <<>> THEN <<>>
  ELSE IF NonEmpty(Head(topics))
       THEN <<Head(topics)>> \o NonEmptyEntries(Tail(topics))
       ELSE NonEmptyEntries(Tail(topics))

C19_TopicsKeepNonEmptyInOrder ==
  formatted # <<>> =>
    LET given == formatted.record.topics
        got == formatted.log.topics
    IN /\ got = NonEmptyEntries(given)
       /\ (\A k \in 1..Len(given) : NonEmpty(given[k])) => got = given
       /\ FilterTopics(got) = got

C19_Witness ==
  /\ formatted # <<>>
  /\ formatted.record.topics =
       <<Str(<<"0", "x", "a", "b", "c">>), Str(<<>>), Str(<<"0", "x", "d", "e", "f">>)>>
  /\ formatted.log.topics =
       <<Str(<<"0", "x", "a", "b", "c">>), Str(<<"0", "x", "d", "e", "f">>)>>

====
